---- MODULE Spec2Model ----
(***************************************************************************)
(* A model of the DeepCool CH170 display controller:                       *)
(*   helpers.rs        retry_with_backoff                                  *)
(*   ch_170.rs         CH170Display, DisplayMode, DisplayData,             *)
(*                     DisplayPayload                                      *)
(*   sensor_reader.rs  SensorReader                                        *)
(*   main.rs           run_display_loop, run_mode_cycle                    *)
(*                                                                         *)
(* Four specifications share the definitions of the code:                  *)
(*   SpecRetry    one retry_with_backoff call, stepped attempt by attempt  *)
(*   SpecDisplay  any sequence of CH170Display::update / switch_mode       *)
(*   SpecSensor   any sequence of SensorReader::update                     *)
(*   SpecMain     run_display_loop driving both components                 *)
(*                                                                         *)
(* Real numbers (f64 readings) are fixed-point integers counting 1/Unit.   *)
(***************************************************************************)
EXTENDS Integers, Sequences, FiniteSets, TLC

VARIABLES
    r,          \* the frame of the retry_with_backoff call of SpecRetry
    display,    \* CH170Display: device, payload, mode
    d_last,     \* what the last CH170Display::update call did (history)
    reader,     \* SensorReader: view, sensors, readings, no_change_counter
    s_last,     \* what the last SensorReader::update call did (history)
    m           \* run_display_loop: position, cycles, shutdown flag, history

vars == <<r, display, d_last, reader, s_last, m>>

(***************************************************************************)
(* Bounds of the model.                                                    *)
(***************************************************************************)
\* the largest max_retries a SpecRetry call is given
MaxRetriesArg == 3
\* device handles are told apart modulo this many generations
NumHandles == 2
\* mapping views are told apart modulo this many generations
NumViews == 2
\* the longest reading table built from the pool of readings
MaxReadings == 2

(***************************************************************************)
(* helpers.rs: retry_with_backoff                                          *)
(***************************************************************************)
\* an outcome of one invocation of the operation f: Ok(val) or Err(val)
Ok(v) == [ok |-> TRUE, val |-> v]
Err(e) == [ok |-> FALSE, val |-> e]

NoResult == [tag |-> "none", val |-> 0, after |-> 0]

\* let mut attempts = 0; the loop is entered
RetryStart(max_retries, delay_secs) ==
    [pc |-> "call", attempts |-> 0, max_retries |-> max_retries,
     delay_secs |-> delay_secs, log |-> <<>>, result |-> NoResult]

CallEvent(out) == [ev |-> "call", ok |-> out.ok, val |-> out.val, secs |-> 0]
SleepEvent(secs) == [ev |-> "sleep", ok |-> FALSE, val |-> 0, secs |-> secs]

\* if attempts >= max_retries
ExhaustedMutant(attempts, max_retries) == attempts > max_retries
Exhausted(attempts, max_retries) == attempts >= max_retries

\* Ok(result) => return Ok(result)
OnOkMutant(fr, v) ==
    IF Len(fr.log) = 1
    THEN [fr EXCEPT !.pc = "call"]
    ELSE [fr EXCEPT !.pc = "done", !.result = [tag |-> "ok", val |-> v, after |-> 0]]
OnOk(fr, v) ==
    [fr EXCEPT !.pc = "done", !.result = [tag |-> "ok", val |-> v, after |-> 0]]

\* return Err(err).context(format!("Operation failed after {} attempts", max_retries))
WrapErrMutant(fr, e) ==
    [tag |-> "err",
     val |-> (SelectSeq(fr.log, LAMBDA x : x.ev = "call"))[1].val,
     after |-> fr.max_retries]
WrapErr(fr, e) == [tag |-> "err", val |-> e, after |-> fr.max_retries]

\* Err(err) => { attempts += 1; if attempts >= max_retries { return Err(..) } .. sleep }
OnErrMutant(fr, e) ==
    LET attempts == fr.attempts + 1
    IN  IF Exhausted(fr.attempts, fr.max_retries)
        THEN [fr EXCEPT !.attempts = attempts, !.pc = "done",
                        !.result = WrapErr(fr, e)]
        ELSE [fr EXCEPT !.attempts = attempts, !.pc = "sleep"]
OnErr(fr, e) ==
    LET attempts == fr.attempts + 1
    IN  IF Exhausted(attempts, fr.max_retries)
        THEN [fr EXCEPT !.attempts = attempts, !.pc = "done",
                        !.result = WrapErr(fr, e)]
        ELSE [fr EXCEPT !.attempts = attempts, !.pc = "sleep"]

\* match f() { .. }: one invocation of the operation, whose outcome is out
RetryCall(fr, out) ==
    LET logged == [fr EXCEPT !.log = Append(fr.log, CallEvent(out))]
    IN  IF out.ok THEN OnOk(logged, out.val) ELSE OnErr(logged, out.val)

\* sleep(Duration::from_secs(delay_secs)); and the loop goes round
RetrySleepMutant(fr) ==
    [fr EXCEPT !.pc = "call",
               !.log = Append(fr.log, SleepEvent(fr.delay_secs * fr.attempts))]
RetrySleep(fr) ==
    [fr EXCEPT !.pc = "call", !.log = Append(fr.log, SleepEvent(fr.delay_secs))]

\* the whole call, the operation's successive outcomes being outs
RECURSIVE RetryRun(_, _)
RetryRun(fr, outs) ==
    IF fr.pc = "done" THEN fr
    ELSE IF fr.pc = "sleep" THEN RetryRun(RetrySleep(fr), outs)
    ELSE RetryRun(RetryCall(fr, Head(outs)), Tail(outs))

retry_with_backoff(max_retries, delay_secs, outs) ==
    RetryRun(RetryStart(max_retries, delay_secs), outs)

\* the invocations of the operation a frame has made, in order
Calls(fr) == SelectSeq(fr.log, LAMBDA x : x.ev = "call")
Sleeps(fr) == SelectSeq(fr.log, LAMBDA x : x.ev = "sleep")

\* the values and the errors the operation of SpecRetry can produce
OkValues == {42, 7}
ErrValues == {-1, -2}
Outcomes == {Ok(v) : v \in OkValues} \cup {Err(e) : e \in ErrValues}
DelayArgs == {0, 1, 5}

(***************************************************************************)
(* Numbers.  A real value x is the integer x * Unit; the readings of the   *)
(* model are multiples of 1/2 and the means of up to four of them.         *)
(***************************************************************************)
Unit == 8 * 3
Real(n, d) == (n * Unit) \div d

Abs(x) == IF x < 0 THEN -x ELSE x

\* f64::round: to the nearest integer, halves away from zero
RoundMutant(x) == IF x < 0 THEN -(Abs(x) \div Unit) ELSE x \div Unit
Round(x) ==
    LET q == Abs(x) \div Unit
        n == IF 2 * (Abs(x) % Unit) >= Unit THEN q + 1 ELSE q
    IN  IF x < 0 THEN -n ELSE n

\* `as u16`, `as u8` of a float: saturating
AsU16(n) == IF n < 0 THEN 0 ELSE IF n > 65535 THEN 65535 ELSE n
AsU8(n) == IF n < 0 THEN 0 ELSE IF n > 255 THEN 255 ELSE n

\* byteorder::U16<BE>
U16BE(n) == <<n \div 256, n % 256>>

\* the binade of a > 0: the e with 2^e <= a / Unit < 2^(e+1)
InBinade(a, e) ==
    IF e >= 0
    THEN Unit * 2^e <= a /\ a < Unit * 2^(e + 1)
    ELSE a < Unit /\ Unit <= a * 2^(-e) /\ a * 2^(-e) < 2 * Unit
Binade(a) == CHOOSE e \in -5..23 : InBinade(a, e)

\* `as f32` then byteorder::F32<BE>: IEEE 754 binary32, round to nearest even
F32BE(x) ==
    IF x = 0 THEN <<0, 0, 0, 0>>
    ELSE
      LET a == Abs(x)
          e == Binade(a)
          num == a * 2^(23 - e)
          q == num \div Unit
          rem == num % Unit
          up == 2 * rem > Unit \/ (2 * rem = Unit /\ q % 2 = 1)
          m0 == IF up THEN q + 1 ELSE q
          carry == m0 = 2^24
          mant == IF carry THEN 0 ELSE m0 - 2^23
          ex == (IF carry THEN e + 1 ELSE e) + 127
          sign == IF x < 0 THEN 128 ELSE 0
      IN  <<sign + (ex \div 2),
            (ex % 2) * 128 + (mant \div 65536),
            (mant \div 256) % 256,
            mant % 256>>

\* s[i] + ... + s[j]
RECURSIVE SumRange(_, _, _)
SumRange(s, i, j) == IF i > j THEN 0 ELSE s[i] + SumRange(s, i + 1, j)

(***************************************************************************)
(* sensor_readings.rs: SensorReadings                                      *)
(***************************************************************************)
Metrics == {"cpu_temp", "cpu_power", "cpu_usage", "cpu_freq", "cpu_cooler_rpm",
            "gpu_temp", "gpu_power", "gpu_usage", "gpu_freq"}

\* SensorReadings::default(): neutral defaults
SensorReadings_default ==
    [cpu_temp |-> 0, cpu_power |-> 0, cpu_usage |-> 0, cpu_freq |-> 0,
     cpu_cooler_rpm |-> 0, gpu_temp |-> 0, gpu_power |-> 0, gpu_usage |-> 0,
     gpu_freq |-> 0, polling_period |-> 0]

(***************************************************************************)
(* ch_170.rs: DisplayMode                                                  *)
(***************************************************************************)
CpuFrequency == 2
CpuFan == 3
Gpu == 4
DisplayModes == {CpuFrequency, CpuFan, Gpu}

DisplayMode_default == CpuFrequency

DisplayMode_next_Mutant(mode) ==
    IF mode = CpuFrequency THEN CpuFan
    ELSE IF mode = CpuFan THEN Gpu
    ELSE CpuFrequency
DisplayMode_next(mode) ==
    IF mode = CpuFrequency THEN Gpu
    ELSE IF mode = Gpu THEN CpuFan
    ELSE CpuFrequency

includes_cpu(mode) == mode \in {CpuFrequency, CpuFan}
includes_gpu_Mutant(mode) == mode \in {Gpu, CpuFan}
includes_gpu(mode) == mode = Gpu

(***************************************************************************)
(* ch_170.rs: DisplayData, DisplayPayload                                  *)
(***************************************************************************)
DISPLAY_REPORT_ID == 16
DISPLAY_TERMINATOR == 22
DISPLAY_HEADER == <<104, 1, 6, 35, 1>>
DISPLAY_PAYLOAD_SIZE == 64
DISPLAY_PADDING_SIZE == 22
\* TEMPERATURE_UNIT_CELSIUS: bool = false, one byte 0
TEMPERATURE_UNIT_CELSIUS == 0

Zeros(n) == [i \in 1..n |-> 0]

\* #[derive(Default)] for DisplayData: every field zero, mode DisplayMode::default()
DisplayData_default ==
    [fixed_header |-> Zeros(5), mode |-> DisplayMode_default,
     cpu_power |-> Zeros(2), all_temperature_unit |-> 0,
     cpu_temperature |-> Zeros(4), cpu_utilization |-> 0,
     cpu_frequency |-> Zeros(2), cpu_fan_speed |-> Zeros(2),
     gpu_power |-> Zeros(2), gpu_temperature |-> Zeros(4),
     gpu_utilization |-> 0, gpu_frequency |-> Zeros(2),
     psu_power_1 |-> Zeros(2), psu_temperature |-> Zeros(4),
     psu_utilization |-> 0, psu_power_2 |-> Zeros(2),
     psu_fan_speed |-> Zeros(2), filler |-> 0]

\* DisplayData::as_bytes: the #[repr(C)] fields in declaration order
DisplayData_as_bytes(data) ==
    data.fixed_header \o <<data.mode>> \o data.cpu_power
    \o <<data.all_temperature_unit>> \o data.cpu_temperature
    \o <<data.cpu_utilization>> \o data.cpu_frequency \o data.cpu_fan_speed
    \o data.gpu_power \o data.gpu_temperature \o <<data.gpu_utilization>>
    \o data.gpu_frequency
    \o data.psu_power_1 \o data.psu_temperature \o <<data.psu_utilization>>
    \o data.psu_power_2 \o data.psu_fan_speed \o <<data.filler>>

\* the u16 accumulator of checksum(): .map(|&byte| byte as u16).sum()
RECURSIVE SumU16_Mutant(_, _, _)
SumU16_Mutant(acc, s, i) ==
    IF i > Len(s) THEN acc ELSE SumU16_Mutant((acc + s[i]) % 256, s, i + 1)
RECURSIVE SumU16(_, _, _)
SumU16(acc, s, i) ==
    IF i > Len(s) THEN acc ELSE SumU16((acc + s[i]) % 65536, s, i + 1)

\* DisplayData::checksum
checksum_Mutant(data) == SumU16(0, DisplayData_as_bytes(data), 2) % 256
checksum(data) == SumU16(0, DisplayData_as_bytes(data), 1) % 256

\* DisplayData::set_cpu_data
set_cpu_data(data, readings) ==
    [data EXCEPT
       !.cpu_temperature = F32BE(readings.cpu_temp),
       !.cpu_power = U16BE(AsU16(Round(readings.cpu_power))),
       !.cpu_utilization = AsU8(Round(readings.cpu_usage)),
       !.cpu_frequency = U16BE(AsU16(Round(readings.cpu_freq))),
       !.cpu_fan_speed = U16BE(AsU16(Round(readings.cpu_cooler_rpm)))]

\* DisplayData::set_gpu_data
set_gpu_data_Mutant(data, readings) ==
    [data EXCEPT
       !.gpu_temperature = F32BE(readings.gpu_temp),
       !.gpu_power = U16BE(AsU16(Round(readings.gpu_power))),
       !.psu_power_1 = U16BE(AsU16(Round(readings.gpu_power))),
       !.gpu_utilization = AsU8(Round(readings.gpu_usage)),
       !.gpu_frequency = U16BE(AsU16(Round(readings.gpu_freq)))]
set_gpu_data(data, readings) ==
    [data EXCEPT
       !.gpu_temperature = F32BE(readings.gpu_temp),
       !.gpu_power = U16BE(AsU16(Round(readings.gpu_power))),
       !.gpu_utilization = AsU8(Round(readings.gpu_usage)),
       !.gpu_frequency = U16BE(AsU16(Round(readings.gpu_freq)))]

\* #[derive(Default)] for DisplayPayload
DisplayPayload_default ==
    [report_id |-> 0, data |-> DisplayData_default, checksum |-> 0,
     terminator |-> 0, filler |-> Zeros(DISPLAY_PADDING_SIZE)]

\* DisplayPayload::new
DisplayPayload_new ==
    [DisplayPayload_default EXCEPT
       !.report_id = DISPLAY_REPORT_ID,
       !.data.fixed_header = DISPLAY_HEADER,
       !.data.all_temperature_unit = TEMPERATURE_UNIT_CELSIUS,
       !.terminator = DISPLAY_TERMINATOR]

\* DisplayPayload::as_bytes: the #[repr(C)] fields in declaration order
DisplayPayload_as_bytes(payload) ==
    <<payload.report_id>> \o DisplayData_as_bytes(payload.data)
    \o <<payload.checksum, payload.terminator>> \o payload.filler

\* DisplayPayload::update
DisplayPayload_update_Mutant(payload, mode, readings) ==
    LET d0 == [payload.data EXCEPT !.mode = mode]
        d1 == IF includes_cpu(mode) THEN set_cpu_data(d0, readings) ELSE d0
        d2 == IF includes_gpu(mode) THEN set_gpu_data(d1, readings) ELSE d1
    IN  [payload EXCEPT !.data = d2,
                        !.checksum = (payload.checksum + checksum(d2)) % 256]
DisplayPayload_update(payload, mode, readings) ==
    LET d0 == [payload.data EXCEPT !.mode = mode]
        d1 == IF includes_cpu(mode) THEN set_cpu_data(d0, readings) ELSE d0
        d2 == IF includes_gpu(mode) THEN set_gpu_data(d1, readings) ELSE d1
    IN  [payload EXCEPT !.data = d2, !.checksum = checksum(d2)]

\* the GPU and the CPU fields of a packet
GpuFields(payload) ==
    <<payload.data.gpu_power, payload.data.gpu_temperature,
      payload.data.gpu_utilization, payload.data.gpu_frequency>>
CpuFields(payload) ==
    <<payload.data.cpu_power, payload.data.cpu_temperature,
      payload.data.cpu_utilization, payload.data.cpu_frequency,
      payload.data.cpu_fan_speed>>

(***************************************************************************)
(* ch_170.rs: CH170Display                                                 *)
(***************************************************************************)
MAX_CONNECTION_RETRIES == 3
RETRY_DELAY_SECS == 5

\* the outcomes of successive open_hid_device() calls: the first k fail,
\* the next opens the device as handle h
OpenOutcomes(k, h) ==
    [i \in 1..MAX_CONNECTION_RETRIES |-> IF i <= k THEN Err(-i) ELSE Ok(h)]

\* connect_to_display
connect_to_display(outs) ==
    retry_with_backoff(MAX_CONNECTION_RETRIES, RETRY_DELAY_SECS, outs)

\* CH170Display::new: the retry frame of the connection and, on success,
\* the display it builds
CH170Display_new(outs) ==
    LET fr == connect_to_display(outs)
    IN  [ok |-> fr.result.tag = "ok",
         calls |-> Len(Calls(fr)),
         self |-> [device |-> fr.result.val,
                   payload |-> DisplayPayload_new,
                   mode |-> DisplayMode_default]]

\* CH170Display::switch_mode
switch_mode(self) == [self EXCEPT !.mode = DisplayMode_next(self.mode)]

\* the handle the next successful open_hid_device() returns
NextHandle(self) == (self.device + 1) % NumHandles

\* one write_to_device, for the history: the bytes written and the outcome
Written(self, ok) ==
    [bytes |-> DisplayPayload_as_bytes(self.payload), ok |-> ok]

\* the history of a CH170Display::update call: where the call stands
\* ("idle" when no call runs), its argument, the mode it was called in,
\* its writes, its reconnects and whether the last one succeeded, the
\* open_hid_device() attempts, its result
NoDisplayCall ==
    [pc |-> "idle", called |-> FALSE, readings |-> SensorReadings_default,
     mode |-> DisplayMode_default, writes |-> <<>>, reconnects |-> 0,
     reconnected |-> FALSE, opens |-> 0, result |-> "none"]

\* CH170Display::update, lines 49-51: self.payload.update(self.mode, readings)
\* and the first write_to_device(), whose outcome is w1
UpdateWrite(self, readings, w1) ==
    LET s1 == [self EXCEPT
                 !.payload = DisplayPayload_update(self.payload, self.mode, readings)]
    IN  [self |-> s1,
         last |-> [NoDisplayCall EXCEPT
                     !.called = TRUE, !.readings = readings, !.mode = self.mode,
                     !.writes = <<Written(s1, w1)>>,
                     !.pc = IF w1 THEN "idle" ELSE "reconnect",
                     !.result = IF w1 THEN "ok" ELSE "none"]]

\* line 53: *self = Self::new()?; k is the number of failing
\* open_hid_device() calls
UpdateReconnectMutant(self, last, k) ==
    LET new == CH170Display_new(OpenOutcomes(k, NextHandle(self)))
    IN  [self |-> [self EXCEPT !.payload = new.self.payload, !.mode = new.self.mode],
         last |-> [last EXCEPT !.reconnects = @ + 1, !.opens = new.calls,
                     !.reconnected = new.ok,
                     !.pc = IF new.ok THEN "rewrite" ELSE "idle",
                     !.result = IF new.ok THEN "none" ELSE "err"]]
UpdateReconnect(self, last, k) ==
    LET new == CH170Display_new(OpenOutcomes(k, NextHandle(self)))
    IN  [self |-> IF new.ok THEN new.self ELSE self,
         last |-> [last EXCEPT !.reconnects = @ + 1, !.opens = new.calls,
                     !.reconnected = new.ok,
                     !.pc = IF new.ok THEN "rewrite" ELSE "idle",
                     !.result = IF new.ok THEN "none" ELSE "err"]]

\* lines 55-56: self.payload.update(self.mode, readings); self.write_to_device()?
\* whose outcome is w2
UpdateRetryWriteMutant(self, last, w2) ==
    LET s2 == [self EXCEPT
                 !.payload = DisplayPayload_update(self.payload, self.mode, last.readings)]
    IN  [self |-> s2,
         last |-> [last EXCEPT
                     !.writes = Append(@, Written(s2, w2)),
                     !.pc = IF w2 THEN "idle" ELSE "reconnect",
                     !.result = IF w2 THEN "ok" ELSE "none"]]
UpdateRetryWrite(self, last, w2) ==
    LET s2 == [self EXCEPT
                 !.payload = DisplayPayload_update(self.payload, self.mode, last.readings)]
    IN  [self |-> s2,
         last |-> [last EXCEPT
                     !.writes = Append(@, Written(s2, w2)),
                     !.pc = "idle",
                     !.result = IF w2 THEN "ok" ELSE "err"]]

\* readings handed to CH170Display::update
SampleReadings ==
    { SensorReadings_default,
      \* the dummy readings of test_display_with_dummy_values
      [cpu_temp |-> Real(151, 2), cpu_power |-> Real(120, 1),
       cpu_usage |-> Real(65, 1), cpu_freq |-> Real(4800, 1),
       cpu_cooler_rpm |-> Real(1500, 1), gpu_temp |-> Real(70, 1),
       gpu_power |-> Real(250, 1), gpu_usage |-> Real(80, 1),
       gpu_freq |-> Real(2400, 1), polling_period |-> 2000],
      \* halves, negatives and values beyond u8 and u16
      [cpu_temp |-> Real(-3, 2), cpu_power |-> Real(140001, 2),
       cpu_usage |-> Real(513, 2), cpu_freq |-> Real(14401, 3),
       cpu_cooler_rpm |-> Real(1, 2), gpu_temp |-> Real(67, 2),
       gpu_power |-> Real(-1, 2), gpu_usage |-> Real(199, 2),
       gpu_freq |-> Real(70000, 1), polling_period |-> 100] }

\* main(): the display as CH170Display::new() leaves it
DisplayConnected == CH170Display_new(OpenOutcomes(0, 0)).self

(***************************************************************************)
(* sensor_reader.rs: the HWiNFO shared memory and SensorReader             *)
(***************************************************************************)
MAX_NO_CHANGE_COUNT == 5
\* the sanity ceiling of the header's sensor count
MAX_SENSOR_ELEMENTS == 10000
\* the ceiling of polling_period()
MAX_POLLING_PERIOD == 250

\* sensor display names (sensor_name_user_utf8)
S_CpuEnhanced == "CPU [#0]: AMD Ryzen 7 9800X3D: Enhanced"
S_Cpu == "CPU [#0]: AMD Ryzen 7 9800X3D"
S_Board == "ASUS ROG STRIX B850-I GAMING WIFI (Nuvoton NCT6701D)"
S_Gpu == "GPU [#0]: NVIDIA GeForce RTX 5080: Inno3D GeForce RTX 5080"
S_Other == "S.M.A.R.T.: NVMe drive"

\* reading labels (user_label_utf8), as sequences of characters
L_Tctl ==
    <<"C", "P", "U", " ", "(", "T", "c", "t", "l", "/", "T", "d", "i", "e",
      ")">>
L_PackagePower ==
    <<"C", "P", "U", " ", "P", "a", "c", "k", "a", "g", "e", " ", "P", "o",
      "w", "e", "r">>
L_TotalUsage ==
    <<"T", "o", "t", "a", "l", " ", "C", "P", "U", " ", "U", "s", "a", "g",
      "e">>
L_Perf0 ==
    <<"C", "o", "r", "e", " ", "0", " ", "T", "0", " ", "p", "e", "r", "f",
      " ", "#", "1">>
L_Perf1 ==
    <<"C", "o", "r", "e", " ", "1", " ", "T", "0", " ", "p", "e", "r", "f",
      " ", "#", "2">>
L_PerfUpper ==
    <<"C", "o", "r", "e", " ", "0", " ", "T", "0", " ", "P", "e", "r", "f",
      " ", "#", "1">>
L_Cpu ==
    <<"C", "P", "U">>
L_GpuTemperature ==
    <<"G", "P", "U", " ", "T", "e", "m", "p", "e", "r", "a", "t", "u", "r",
      "e">>
L_GpuPower ==
    <<"G", "P", "U", " ", "P", "o", "w", "e", "r">>
L_GpuCoreLoad ==
    <<"G", "P", "U", " ", "C", "o", "r", "e", " ", "L", "o", "a", "d">>
L_GpuClock ==
    <<"G", "P", "U", " ", "C", "l", "o", "c", "k">>
L_Other ==
    <<"C", "o", "r", "e", " ", "0", " ", "V", "I", "D">>
PerfPattern ==
    <<"p", "e", "r", "f", " ", "#">>

\* str::contains
contains(label, pat) ==
    \E i \in 1..(Len(label) - Len(pat) + 1) :
        SubSeq(label, i, i + Len(pat) - 1) = pat

\* HWiNFOReadingElement: the fields read_all_sensors reads
Reading(sensor_index, label, value) ==
    [sensor_index |-> sensor_index, label |-> label, value |-> value]

\* the shared memory as one call finds it: the header fields that are
\* read, the sensor descriptors after the header, the reading table
Memory(names, period, table) ==
    [sensor_elements_number |-> Len(names), names |-> names,
     polling_period |-> period, reading_elements_number |-> Len(table),
     table |-> table]

\* self.sensors.get(index): None is the empty sequence, Some(x) is <<x>>
sensors_get_Mutant(sensors, index) ==
    IF index < Len(sensors) THEN <<sensors[index + 1]>>
    ELSE IF sensors # <<>> THEN <<sensors[1]>>
    ELSE <<>>
sensors_get(sensors, index) ==
    IF index < Len(sensors) THEN <<sensors[index + 1]>> ELSE <<>>

\* no mapping content: a call that reads none
NoMemory == Memory(<<>>, 0, <<>>)

\* one reading of the sweep, lines 255-324: acc holds the readings, the
\* per-core clocks collected so far, the number of matched readings and
\* the fields the sweep has reported so far
match_reading(acc, sensors, reading) ==
    IF sensors_get(sensors, reading.sensor_index) = <<>> THEN acc
    ELSE
      LET sensor_name == sensors_get(sensors, reading.sensor_index)[1]
          label == reading.label
          value == reading.value
          set(field) == [acc EXCEPT !.readings[field] = value,
                                    !.matched = @ + 1,
                                    !.seen = @ \cup {field}]
      IN  IF sensor_name = S_CpuEnhanced
          THEN IF label = L_Tctl THEN set("cpu_temp")
               ELSE IF label = L_PackagePower THEN set("cpu_power")
               ELSE acc
          ELSE IF sensor_name = S_Cpu
          THEN IF label = L_TotalUsage THEN set("cpu_usage")
               ELSE IF contains(label, PerfPattern)
               THEN [acc EXCEPT !.freqs = Append(@, value), !.matched = @ + 1,
                                !.seen = @ \cup {"cpu_freq"}]
               ELSE acc
          ELSE IF sensor_name = S_Board
          THEN IF label = L_Cpu THEN set("cpu_cooler_rpm") ELSE acc
          ELSE IF sensor_name = S_Gpu
          THEN IF label = L_GpuTemperature THEN set("gpu_temp")
               ELSE IF label = L_GpuPower THEN set("gpu_power")
               ELSE IF label = L_GpuCoreLoad THEN set("gpu_usage")
               ELSE IF label = L_GpuClock THEN set("gpu_freq")
               ELSE acc
          ELSE acc

\* for i in 0..count: the readings i..count of the table, in order
RECURSIVE sweep(_, _, _, _, _)
sweep(acc, sensors, table, i, count) ==
    IF i > count THEN acc
    ELSE sweep(match_reading(acc, sensors, table[i]), sensors, table, i + 1, count)

\* cpu_freq_values.iter().sum::<f64>() / cpu_freq_values.len() as f64
mean_Mutant(values) == values[Len(values)]
mean(values) == SumRange(values, 1, Len(values)) \div Len(values)

\* the accumulator a sweep starts from
SweepStart_Mutant(readings) ==
    [readings |-> [SensorReadings_default EXCEPT
                     !.polling_period = readings.polling_period],
     freqs |-> <<>>, matched |-> 0, seen |-> {}]
SweepStart(readings) ==
    [readings |-> readings, freqs |-> <<>>, matched |-> 0, seen |-> {}]

\* SensorReader::read_all_sensors: the readings after the sweep
read_all_sensors_Mutant(sensors, readings, table, count) ==
    LET acc == sweep(SweepStart(readings), sensors,
                     [i \in 1..count |-> table[count + 1 - i]], 1, count)
    IN  IF acc.freqs # <<>>
        THEN [acc.readings EXCEPT !.cpu_freq = mean(acc.freqs)]
        ELSE acc.readings
read_all_sensors(sensors, readings, table, count) ==
    LET acc == sweep(SweepStart(readings), sensors, table, 1, count)
    IN  IF acc.freqs # <<>>
        THEN [acc.readings EXCEPT !.cpu_freq = mean(acc.freqs)]
        ELSE acc.readings

\* SensorReader::read_sensors: the descriptors copied out of the mapping
read_sensors(mem) == SubSeq(mem.names, 1, mem.sensor_elements_number)

\* the validation of the header, line 114
valid_sensor_count_Mutant(n) == ~(n = 0 \/ n >= MAX_SENSOR_ELEMENTS)
valid_sensor_count(n) == ~(n = 0 \/ n > MAX_SENSOR_ELEMENTS)

\* the outcomes of successive ensure_hwinfo_running()/open_shared_memory()
\* calls: the first k fail, the next maps the view v
MapOutcomes(k, v) ==
    [i \in 1..MAX_CONNECTION_RETRIES |-> IF i <= k THEN Err(-i) ELSE Ok(v)]

\* connect_to_hwinfo
connect_to_hwinfo(outs) ==
    retry_with_backoff(MAX_CONNECTION_RETRIES, RETRY_DELAY_SECS, outs)

\* SensorReader::new, as an outcome: c.k mappings fail before the view c.view
\* is mapped, and c.mem is what the mapping holds
SensorReader_new(c) ==
    LET fr == connect_to_hwinfo(MapOutcomes(c.k, c.view))
    IN  IF fr.result.tag # "ok" THEN Err(-1)
        ELSE IF ~valid_sensor_count(c.mem.sensor_elements_number) THEN Err(-2)
        ELSE Ok([view |-> fr.result.val,
                 sensors |-> read_sensors(c.mem),
                 readings |-> SensorReadings_default,
                 no_change_counter |-> 0])

\* the history of the last SensorReader::update call: the path it took,
\* its result, the Self::new() calls it made, the number of calls in a
\* row, before it and including it, that left the readings as they were,
\* the mapping content it swept and the fields the sweep reported, the
\* views it mapped (MapViewOfFile) and unmapped (UnmapViewOfFile)
NoSensorCall ==
    [called |-> FALSE, path |-> "none", result |-> "none", news |-> 0,
     prior_streak |-> 0, streak |-> 0, mem |-> NoMemory, reported |-> {},
     mapped |-> 0, unmapped |-> 0]

\* the streak is counted up to here
StreakCap == MAX_NO_CHANGE_COUNT + 2
Streak(last, before, after) ==
    IF before.readings = after.readings
    THEN (IF last.streak < StreakCap THEN last.streak + 1 ELSE StreakCap)
    ELSE 0

\* if self.no_change_counter > MAX_NO_CHANGE_COUNT
needs_reconnect_Mutant(self) == self.no_change_counter >= MAX_NO_CHANGE_COUNT
needs_reconnect(self) == self.no_change_counter > MAX_NO_CHANGE_COUNT

\* the views the first n Self::new() calls map: one for each call whose
\* connect_to_hwinfo() returns a view (open_shared_memory, MapViewOfFile),
\* whether or not the header validation then lets the reader be built
views_mapped(cs, n) ==
    Cardinality({i \in 1..n : cs[i].k < MAX_CONNECTION_RETRIES})

\* lines 176-185: the reconnect through retry_with_backoff; cs are the
\* circumstances of the successive Self::new() calls.  The assignment
\* *self = new_reader drops the old reader, whose Drop unmaps its view;
\* nothing else unmaps a view.
reconnect_Mutant(self, cs) ==
    LET outs == [i \in 1..MAX_CONNECTION_RETRIES |-> SensorReader_new(cs[i])]
        fr == retry_with_backoff(MAX_CONNECTION_RETRIES, RETRY_DELAY_SECS, outs)
    IN  [self |-> IF fr.result.tag = "ok" THEN fr.result.val
                  ELSE [self EXCEPT !.no_change_counter = 0],
         result |-> fr.result.tag,
         news |-> Len(Calls(fr)),
         mapped |-> views_mapped(cs, Len(Calls(fr))),
         unmapped |-> IF fr.result.tag = "ok" THEN 1 ELSE 0]
reconnect(self, cs) ==
    LET outs == [i \in 1..MAX_CONNECTION_RETRIES |-> SensorReader_new(cs[i])]
        fr == retry_with_backoff(MAX_CONNECTION_RETRIES, RETRY_DELAY_SECS, outs)
    IN  [self |-> IF fr.result.tag = "ok" THEN fr.result.val ELSE self,
         result |-> fr.result.tag,
         news |-> Len(Calls(fr)),
         mapped |-> views_mapped(cs, Len(Calls(fr))),
         unmapped |-> IF fr.result.tag = "ok" THEN 1 ELSE 0]

\* lines 188-230: the sweep of the reading table and the staleness counter
parse_Mutant(self, mem) ==
    LET polled == [self.readings EXCEPT !.polling_period = mem.polling_period]
        readings == read_all_sensors(self.sensors, polled, mem.table,
                                     mem.reading_elements_number)
    IN  [self EXCEPT !.readings = readings, !.no_change_counter = @ + 1]
parse(self, mem) ==
    LET old_readings == self.readings
        polled == [self.readings EXCEPT !.polling_period = mem.polling_period]
        readings == read_all_sensors(self.sensors, polled, mem.table,
                                     mem.reading_elements_number)
    IN  [self EXCEPT
           !.readings = readings,
           !.no_change_counter = IF old_readings = readings THEN @ + 1 ELSE 0]

\* the fields the sweep of a call reports
reported_by(self, mem) ==
    sweep(SweepStart(self.readings), self.sensors, mem.table, 1,
          mem.reading_elements_number).seen

\* SensorReader::update: mem is the mapping's content during the call, cs
\* the circumstances of the Self::new() calls of a reconnect.  The result
\* is the reader after the call and the history of the call.
SensorReader_update(self, last, mem, cs) ==
    LET rec == reconnect(self, cs)
        after == IF needs_reconnect(self) THEN rec.self ELSE parse(self, mem)
    IN  [self |-> after,
         last |-> [called |-> TRUE,
                   path |-> IF needs_reconnect(self) THEN "reconnect" ELSE "parse",
                   result |-> IF needs_reconnect(self) THEN rec.result ELSE "ok",
                   news |-> IF needs_reconnect(self) THEN rec.news ELSE 0,
                   prior_streak |-> last.streak,
                   streak |-> Streak(last, self, after),
                   mem |-> IF needs_reconnect(self) THEN NoMemory ELSE mem,
                   reported |-> IF needs_reconnect(self) THEN {}
                                ELSE reported_by(self, mem),
                   mapped |-> IF needs_reconnect(self) THEN rec.mapped ELSE 0,
                   unmapped |-> IF needs_reconnect(self) THEN rec.unmapped ELSE 0]]

\* SensorReader::polling_period
polling_period_Mutant(self) == self.readings.polling_period
polling_period(self) ==
    IF self.readings.polling_period < MAX_POLLING_PERIOD
    THEN self.readings.polling_period ELSE MAX_POLLING_PERIOD

\* the view the next successful open_shared_memory() maps
NextView(self) == (self.view + 1) % NumViews

\* sensor descriptor tables: the usual layout, and another one
Names1 == <<S_CpuEnhanced, S_Cpu, S_Board, S_Gpu, S_Other>>
Names2 == <<S_Gpu, S_Cpu>>

\* readings the tables of SpecSensor are built from: two CPU temperatures,
\* two per-core clocks, a sensor index out of bounds (the sensor indices
\* are those of Names1)
ReadingPool ==
    { Reading(0, L_Tctl, Real(151, 2)), Reading(0, L_Tctl, Real(70, 1)),
      Reading(1, L_Perf0, Real(4700, 1)), Reading(1, L_Perf1, Real(4900, 1)),
      Reading(7, L_Tctl, Real(99, 1)) }

\* a table with every known pair, with readings that match nothing, and
\* with a sensor index out of bounds in the middle
FullTable ==
    << Reading(0, L_Tctl, Real(151, 2)),
       Reading(0, L_PackagePower, Real(120, 1)),
       Reading(0, L_Other, Real(1, 1)),
       Reading(1, L_TotalUsage, Real(65, 1)),
       Reading(1, L_Perf0, Real(4700, 1)),
       Reading(9, L_GpuClock, Real(1, 1)),
       Reading(1, L_Perf1, Real(4900, 1)),
       Reading(1, L_PerfUpper, Real(1000, 1)),
       Reading(1, L_Tctl, Real(50, 1)),
       Reading(2, L_Cpu, Real(1500, 1)),
       Reading(3, L_GpuTemperature, Real(70, 1)),
       Reading(3, L_GpuPower, Real(250, 1)),
       Reading(3, L_GpuCoreLoad, Real(80, 1)),
       Reading(3, L_GpuClock, Real(2400, 1)),
       Reading(4, L_Cpu, Real(7, 1)) >>

ReadingTables ==
    UNION {[1..n -> ReadingPool] : n \in 0..MaxReadings} \cup {FullTable}

\* polling periods the header reports, below and above the ceiling
PollingPeriods == {100, 1000}

\* the mapping's content during an update() call
Memories ==
    {Memory(Names1, 100, t) : t \in ReadingTables}

\* a sensor descriptor table of n entries: those of Names1, then others
NamesOf(n) ==
    [i \in 1..n |-> IF i <= Len(Names1) THEN Names1[i] ELSE S_Other]

\* the circumstances of one Self::new(): the mapping is opened at once,
\* or after one failure, or not at all, or its header reports no sensors
Connections(v) ==
    { [k |-> 0, view |-> v, mem |-> Memory(Names1, 100, <<>>)],
      [k |-> 1, view |-> v, mem |-> Memory(Names2, 100, <<>>)],
      [k |-> MAX_CONNECTION_RETRIES, view |-> v, mem |-> Memory(Names1, 100, <<>>)],
      [k |-> 0, view |-> v, mem |-> Memory(<<>>, 100, <<>>)] }

\* the sensor counts of the headers SensorReader::new() is tried on: none,
\* a few, the ceiling and its neighbours, twice the ceiling
HeaderCounts ==
    {0, 1, 2, Len(Names1), MAX_SENSOR_ELEMENTS - 1, MAX_SENSOR_ELEMENTS,
     MAX_SENSOR_ELEMENTS + 1, 2 * MAX_SENSOR_ELEMENTS}

\* the mappings with these headers
Headers == {Memory(NamesOf(n), 100, <<>>) : n \in HeaderCounts}

\* main(): the reader as SensorReader::new() leaves it
ReadersConnected ==
    {SensorReader_new(c).val : c \in {x \in Connections(0) : SensorReader_new(x).ok}}

NoConnections ==
    [i \in 1..MAX_CONNECTION_RETRIES |->
        [k |-> MAX_CONNECTION_RETRIES, view |-> 0, mem |-> NoMemory]]

(***************************************************************************)
(* The components at rest, for the specifications that do not run them.    *)
(***************************************************************************)
RetryIdle == RetryStart(0, 0)
ReaderIdle == SensorReader_new([k |-> 0, view |-> 0, mem |-> Memory(Names1, 100, <<>>)]).val
MainIdle == [pc |-> "done", cycles |-> 0, shutdown |-> FALSE, failed |-> FALSE,
             slept |-> 0, polls |-> 0, shown |-> 0]

(***************************************************************************)
(* SpecRetry: one retry_with_backoff call.                                 *)
(***************************************************************************)
InitRetry ==
    /\ r \in {RetryStart(n, d) : n \in 0..MaxRetriesArg, d \in DelayArgs}
    /\ display = DisplayConnected
    /\ d_last = NoDisplayCall
    /\ reader = ReaderIdle
    /\ s_last = NoSensorCall
    /\ m = MainIdle

\* the operation is invoked
RetryAttempt ==
    /\ r.pc = "call"
    /\ \E out \in Outcomes : r' = RetryCall(r, out)
    /\ UNCHANGED <<display, d_last, reader, s_last, m>>

\* the delay between two attempts
RetryPause ==
    /\ r.pc = "sleep"
    /\ r' = RetrySleep(r)
    /\ UNCHANGED <<display, d_last, reader, s_last, m>>

NextRetry == RetryAttempt \/ RetryPause

SpecRetry == InitRetry /\ [][NextRetry]_vars

(***************************************************************************)
(* SpecDisplay: any sequence of update and switch_mode calls.              *)
(***************************************************************************)
InitDisplay ==
    /\ r = RetryIdle
    /\ display = DisplayConnected
    /\ d_last = NoDisplayCall
    /\ reader = ReaderIdle
    /\ s_last = NoSensorCall
    /\ m = MainIdle

\* a caller calls update(readings): the packet is encoded and written
DisplayUpdateWrite ==
    /\ d_last.pc = "idle"
    /\ \E readings \in SampleReadings, w1 \in BOOLEAN :
          LET res == UpdateWrite(display, readings, w1)
          IN  display' = res.self /\ d_last' = res.last
    /\ UNCHANGED <<r, reader, s_last, m>>

\* the write failed: the display is rediscovered
DisplayUpdateReconnect ==
    /\ d_last.pc = "reconnect"
    /\ \E k \in 0..MAX_CONNECTION_RETRIES :
          LET res == UpdateReconnect(display, d_last, k)
          IN  display' = res.self /\ d_last' = res.last
    /\ UNCHANGED <<r, reader, s_last, m>>

\* the display was rediscovered: the write is retried
DisplayUpdateRetryWrite ==
    /\ d_last.pc = "rewrite"
    /\ \E w2 \in BOOLEAN :
          LET res == UpdateRetryWrite(display, d_last, w2)
          IN  display' = res.self /\ d_last' = res.last
    /\ UNCHANGED <<r, reader, s_last, m>>

\* a caller calls switch_mode()
DisplaySwitchMode ==
    /\ d_last.pc = "idle"
    /\ display' = switch_mode(display)
    /\ UNCHANGED <<r, d_last, reader, s_last, m>>

NextDisplay ==
    \/ DisplayUpdateWrite
    \/ DisplayUpdateReconnect
    \/ DisplayUpdateRetryWrite
    \/ DisplaySwitchMode

SpecDisplay == InitDisplay /\ [][NextDisplay]_vars

(***************************************************************************)
(* SpecSensor: any sequence of SensorReader::update calls.                 *)
(***************************************************************************)
InitSensor ==
    /\ r = RetryIdle
    /\ display = DisplayConnected
    /\ d_last = NoDisplayCall
    /\ reader \in ReadersConnected
    /\ s_last = NoSensorCall
    /\ m = MainIdle

\* update() while the data is not held stale: the table is swept
SensorUpdateParse ==
    /\ ~needs_reconnect(reader)
    /\ \E mem \in Memories :
          LET res == SensorReader_update(reader, s_last, mem, NoConnections)
          IN  reader' = res.self /\ s_last' = res.last
    /\ UNCHANGED <<r, display, d_last, m>>

\* update() once the data is held stale: the reader reconnects
SensorUpdateReconnect ==
    /\ needs_reconnect(reader)
    /\ \E cs \in [1..MAX_CONNECTION_RETRIES -> Connections(NextView(reader))] :
          LET res == SensorReader_update(reader, s_last, NoMemory, cs)
          IN  reader' = res.self /\ s_last' = res.last
    /\ UNCHANGED <<r, display, d_last, m>>

NextSensor == SensorUpdateParse \/ SensorUpdateReconnect

SpecSensor == InitSensor /\ [][NextSensor]_vars

(***************************************************************************)
(* main.rs: run_display_loop and run_mode_cycle over the two components.   *)
(* m.pc is the line the loop stands at, m.cycles the counter of            *)
(* run_mode_cycle, m.shutdown the flag the signal handler sets, m.failed   *)
(* whether an update() has returned an error to the loop, m.slept the      *)
(* milliseconds of the last sleep, m.polls and m.shown the calls of        *)
(* sensor_reader.update() and of display.update() since the last           *)
(* display.switch_mode().                                                  *)
(***************************************************************************)
REFRESH_CYCLES_PER_MODE == 5

\* the reading table while the loop runs: CPU and GPU readings
MainTable ==
    << Reading(0, L_Tctl, Real(151, 2)), Reading(1, L_Perf0, Real(4700, 1)),
       Reading(3, L_GpuTemperature, Real(60, 1)) >>

MainMemories == {Memory(Names1, p, MainTable) : p \in PollingPeriods}

\* a reconnect of the reader while the loop runs: HWiNFO is back, or gone
MainConnections(v) ==
    { [i \in 1..MAX_CONNECTION_RETRIES |->
          [k |-> k, view |-> v, mem |-> Memory(Names1, 100, <<>>)]] :
      k \in {0, MAX_CONNECTION_RETRIES} }

InitMain ==
    /\ r = RetryIdle
    /\ display = DisplayConnected
    /\ d_last = NoDisplayCall
    /\ reader = ReaderIdle
    /\ s_last = NoSensorCall
    /\ m = [pc |-> "loop", cycles |-> 0, shutdown |-> FALSE, failed |-> FALSE,
            slept |-> 0, polls |-> 0, shown |-> 0]

\* setup_shutdown_handler: the handler stores true into the flag
Signal ==
    /\ ~m.shutdown /\ m.pc # "done"
    /\ m' = [m EXCEPT !.shutdown = TRUE]
    /\ UNCHANGED <<r, display, d_last, reader, s_last>>

\* run_display_loop, line 64: while !shutdown.load(..)
MainLoop ==
    /\ m.pc = "loop"
    /\ m' = IF m.shutdown THEN [m EXCEPT !.pc = "done"]
            ELSE [m EXCEPT !.pc = "cycle", !.cycles = 0]
    /\ UNCHANGED <<r, display, d_last, reader, s_last>>

\* run_mode_cycle, line 80: while !shutdown.load(..) && cycles < 5
MainCycleMutant ==
    /\ m.pc = "cycle"
    /\ m' = IF m.cycles < REFRESH_CYCLES_PER_MODE
            THEN [m EXCEPT !.pc = "sensor_update"]
            ELSE [m EXCEPT !.pc = "switch_mode"]
    /\ UNCHANGED <<r, display, d_last, reader, s_last>>
MainCycle ==
    /\ m.pc = "cycle"
    /\ m' = IF ~m.shutdown /\ m.cycles < REFRESH_CYCLES_PER_MODE
            THEN [m EXCEPT !.pc = "sensor_update"]
            ELSE [m EXCEPT !.pc = "switch_mode"]
    /\ UNCHANGED <<r, display, d_last, reader, s_last>>

\* lines 82-85: sensor_reader.update(); an error is logged
MainSensorUpdate ==
    /\ m.pc = "sensor_update"
    /\ \E mem \in MainMemories, cs \in MainConnections(NextView(reader)) :
          LET res == SensorReader_update(reader, s_last, mem, cs)
          IN  /\ reader' = res.self
              /\ s_last' = res.last
              /\ m' = [m EXCEPT !.pc = "display_update",
                                !.polls = @ + 1,
                                !.failed = @ \/ res.last.result = "err"]
    /\ UNCHANGED <<r, display, d_last>>

\* line 87: display.update(&sensor_reader.readings) is entered
MainDisplayUpdate ==
    /\ m.pc = "display_update"
    /\ \E w1 \in BOOLEAN :
          LET res == UpdateWrite(display, reader.readings, w1)
          IN  display' = res.self /\ d_last' = res.last
    /\ m' = [m EXCEPT !.pc = "display_return", !.shown = @ + 1]
    /\ UNCHANGED <<r, reader, s_last>>

\* display.update: the write failed, the display is rediscovered
MainDisplayReconnect ==
    /\ m.pc = "display_return" /\ d_last.pc = "reconnect"
    /\ \E k \in {0, MAX_CONNECTION_RETRIES} :
          LET res == UpdateReconnect(display, d_last, k)
          IN  display' = res.self /\ d_last' = res.last
    /\ UNCHANGED <<r, reader, s_last, m>>

\* display.update: the write is retried on the new handle
MainDisplayRetryWrite ==
    /\ m.pc = "display_return" /\ d_last.pc = "rewrite"
    /\ \E w2 \in BOOLEAN :
          LET res == UpdateRetryWrite(display, d_last, w2)
          IN  display' = res.self /\ d_last' = res.last
    /\ UNCHANGED <<r, reader, s_last, m>>

\* lines 87-91: display.update returns, an error is logged; cycles += 1
MainDisplayReturnMutant ==
    /\ m.pc = "display_return" /\ d_last.pc = "idle"
    /\ m' = [m EXCEPT !.pc = "sleep",
                      !.cycles = IF d_last.result = "err" THEN @ ELSE @ + 1,
                      !.failed = @ \/ d_last.result = "err"]
    /\ UNCHANGED <<r, display, d_last, reader, s_last>>
MainDisplayReturn ==
    /\ m.pc = "display_return" /\ d_last.pc = "idle"
    /\ m' = [m EXCEPT !.pc = "sleep", !.cycles = @ + 1,
                      !.failed = @ \/ d_last.result = "err"]
    /\ UNCHANGED <<r, display, d_last, reader, s_last>>

\* line 94: thread::sleep(Duration::from_millis(polling_period))
MainSleep ==
    /\ m.pc = "sleep"
    /\ m' = [m EXCEPT !.pc = "after_sleep", !.slept = polling_period(reader)]
    /\ UNCHANGED <<r, display, d_last, reader, s_last>>

\* lines 97-99: if shutdown.load(..) { break; }
MainAfterSleep ==
    /\ m.pc = "after_sleep"
    /\ m' = [m EXCEPT !.pc = IF m.shutdown THEN "switch_mode" ELSE "cycle"]
    /\ UNCHANGED <<r, display, d_last, reader, s_last>>

\* run_display_loop, line 67: display.switch_mode()
MainSwitchMode ==
    /\ m.pc = "switch_mode"
    /\ display' = switch_mode(display)
    /\ m' = [m EXCEPT !.pc = "loop", !.polls = 0, !.shown = 0]
    /\ UNCHANGED <<r, d_last, reader, s_last>>

NextMain ==
    \/ Signal
    \/ MainLoop
    \/ MainCycle
    \/ MainSensorUpdate
    \/ MainDisplayUpdate
    \/ MainDisplayReconnect
    \/ MainDisplayRetryWrite
    \/ MainDisplayReturn
    \/ MainSleep
    \/ MainAfterSleep
    \/ MainSwitchMode

SpecMain == InitMain /\ [][NextMain]_vars

(***************************************************************************)
(* SpecConnect: any sequence of SensorReader::new() calls by the holder of *)
(* a reader, who replaces its reader when the call returns one (as main    *)
(* and the reconnect of update do).                                        *)
(***************************************************************************)
\* the history of the last SensorReader::new() call: the failing attempts
\* to map the view, the sensor count of the header, and the result
NewCall(c, res) ==
    [called |-> TRUE, k |-> c.k, count |-> c.mem.sensor_elements_number,
     ok |-> res.ok, err |-> IF res.ok THEN 0 ELSE res.val]

InitConnect ==
    /\ r = RetryIdle
    /\ display = DisplayConnected
    /\ d_last = NoDisplayCall
    /\ reader = ReaderIdle
    /\ s_last = [called |-> FALSE, k |-> 0, count |-> 0, ok |-> FALSE, err |-> 0]
    /\ m = MainIdle

\* SensorReader::new() is called
SensorNew ==
    /\ \E k \in 0..MAX_CONNECTION_RETRIES, mem \in Headers :
          LET c == [k |-> k, view |-> NextView(reader), mem |-> mem]
              res == SensorReader_new(c)
          IN  /\ reader' = IF res.ok THEN res.val ELSE reader
              /\ s_last' = NewCall(c, res)
    /\ UNCHANGED <<r, display, d_last, m>>

NextConnect == SensorNew

SpecConnect == InitConnect /\ [][NextConnect]_vars

(***************************************************************************)
(* Claims about retry_with_backoff (SpecRetry).                            *)
(***************************************************************************)
AllFailed(c) == \A i \in 1..Len(c) : ~c[i].ok

\* C1: retry_with_backoff returns the first success and stops.  A
\* successful invocation is the last invocation the call ever makes, every
\* invocation before it failed, the call has returned Ok with that
\* invocation's value, and the call does not give up with an error before
\* max_retries invocations have failed: k < max_retries failures followed
\* by a success are exactly k + 1 invocations.
C1_FirstSuccessStops ==
    LET c == Calls(r)
    IN  /\ \A i \in 1..Len(c) :
             c[i].ok => /\ i = Len(c)
                        /\ AllFailed(SubSeq(c, 1, i - 1))
                        /\ r.pc = "done"
                        /\ r.result = [tag |-> "ok", val |-> c[i].val, after |-> 0]
        /\ r.pc = "done" /\ r.result.tag = "err" => Len(c) >= r.max_retries
        /\ r.result.tag = "ok" => Len(c) >= 1 /\ c[Len(c)].ok

\* two failures, then the third invocation succeeds (test_retry_success_after_failures)
C1_Witness ==
    /\ r.pc = "done" /\ r.result.tag = "ok" /\ r.max_retries = 3
    /\ Len(Calls(r)) = 3 /\ ~Calls(r)[1].ok /\ ~Calls(r)[2].ok

\* C2: when every invocation fails and max_retries = n >= 1, the operation
\* is invoked exactly n times and the call then ends with Err: never more
\* than n invocations, and the call has returned exactly when n were made.
C2_ExhaustsAfterN ==
    LET c == Calls(r)
    IN  r.max_retries >= 1 /\ AllFailed(c) =>
          /\ Len(c) <= r.max_retries
          /\ (r.pc = "done") = (Len(c) = r.max_retries)
          /\ r.pc = "done" => r.result.tag = "err"
          /\ r.pc # "done" => r.result.tag = "none"

\* three failures of three (test_retry_exhausts_attempts)
C2_Witness ==
    /\ r.pc = "done" /\ r.result.tag = "err" /\ r.max_retries = 3
    /\ Len(Calls(r)) = 3

\* C3: on exhaustion the error returned is the error of the final
\* invocation, not of an earlier one, wrapped with the attempt count the
\* call was given (max_retries), which for max_retries >= 1 is the number
\* of invocations made.
C3_LastErrorWrapped ==
    LET c == Calls(r)
    IN  r.pc = "done" /\ r.result.tag = "err" =>
          /\ Len(c) >= 1
          /\ ~c[Len(c)].ok
          /\ r.result.val = c[Len(c)].val
          /\ r.result.after = r.max_retries
          /\ r.max_retries >= 1 => r.result.after = Len(c)

\* exhausted after three failures whose first and last errors differ
C3_Witness ==
    /\ r.pc = "done" /\ r.result.tag = "err" /\ Len(Calls(r)) = 3
    /\ Calls(r)[1].val # Calls(r)[3].val

(***************************************************************************)
(* Claims about the packet and CH170Display (SpecDisplay).                 *)
(***************************************************************************)
\* a packet of 64 bytes whose checksum byte (after the report id and the
\* 39 bytes of the data block) is the sum of the data block modulo 256
PacketOK(b) ==
    /\ Len(b) = 64
    /\ b[41] = SumRange(b, 2, 40) % 256

\* C4: after every DisplayPayload::update, in every mode and for any
\* readings, the packet is 64 bytes and its checksum byte is the sum of
\* the data block modulo 256: the packet the display holds once update
\* was applied to it (at "rewrite" a reconnect has just constructed it),
\* and every packet written to the device.
C4_PacketChecksum ==
    /\ d_last.called /\ d_last.pc # "rewrite" =>
          PacketOK(DisplayPayload_as_bytes(display.payload))
    /\ \A i \in 1..Len(d_last.writes) : PacketOK(d_last.writes[i].bytes)

\* a packet that holds CPU and GPU data, last updated in mode Gpu
C4_Witness ==
    /\ d_last.pc = "idle" /\ d_last.result = "ok"
    /\ display.payload.data.mode = Gpu
    /\ CpuFields(display.payload) # CpuFields(DisplayPayload_new)
    /\ GpuFields(display.payload) # GpuFields(DisplayPayload_new)
    /\ display.payload.checksum # 0

\* C5: a step that applies DisplayPayload::update (the first write of an
\* update call, or the retried write) in mode CpuFrequency or CpuFan leaves
\* the four GPU fields as they were, and in mode Gpu the five CPU fields.
C5_GroupFrame ==
    [][ (d_last.pc \in {"idle", "rewrite"} /\ display'.mode = display.mode) =>
          /\ display.mode \in {CpuFrequency, CpuFan} =>
                GpuFields(display'.payload) = GpuFields(display.payload)
          /\ display.mode = Gpu =>
                CpuFields(display'.payload) = CpuFields(display.payload) ]_vars

\* GPU data written earlier is still in the packet after an update in CpuFan
C5_Witness ==
    /\ d_last.pc = "idle" /\ d_last.called /\ d_last.mode = CpuFan
    /\ Len(d_last.writes) = 1
    /\ GpuFields(display.payload) # GpuFields(DisplayPayload_new)
    /\ CpuFields(display.payload) # CpuFields(DisplayPayload_new)
    /\ GpuFields(display.payload) #
         GpuFields(DisplayPayload_update(DisplayPayload_new, Gpu, d_last.readings))

\* C7 as stated: a failed first write is always followed by one reconnect
\* and exactly one more write.
C7_Original ==
    d_last.called /\ d_last.pc = "idle" =>
      /\ Len(d_last.writes) <= 2
      /\ d_last.writes[1].ok =>
            d_last.reconnects = 0 /\ Len(d_last.writes) = 1 /\ d_last.result = "ok"
      /\ ~d_last.writes[1].ok =>
            /\ d_last.reconnects = 1
            /\ Len(d_last.writes) = 2
            /\ ~d_last.writes[2].ok => d_last.result = "err"

\* C7, amended: in one update call the write is attempted at most twice
\* and the display is rediscovered at most once.  If the first write
\* succeeds there is no reconnect and the call returns Ok.  If it fails,
\* exactly one reconnect is attempted: if that fails the call returns the
\* error without a second write, and if it succeeds exactly one more write
\* follows, whose outcome is the result of the call.
C7_WriteAtMostTwice ==
    /\ Len(d_last.writes) <= 2
    /\ d_last.reconnects <= 1
    /\ d_last.opens <= MAX_CONNECTION_RETRIES
    /\ d_last.called /\ d_last.pc = "idle" =>
         /\ Len(d_last.writes) >= 1
         /\ d_last.writes[1].ok =>
               d_last.reconnects = 0 /\ Len(d_last.writes) = 1 /\ d_last.result = "ok"
         /\ ~d_last.writes[1].ok =>
               /\ d_last.reconnects = 1
               /\ ~d_last.reconnected =>
                     Len(d_last.writes) = 1 /\ d_last.result = "err"
               /\ d_last.reconnected =>
                     /\ Len(d_last.writes) = 2
                     /\ d_last.result = IF d_last.writes[2].ok THEN "ok" ELSE "err"

\* the retried write failed too and the call returned the error
C7_Witness ==
    /\ d_last.pc = "idle" /\ d_last.result = "err" /\ d_last.reconnected
    /\ Len(d_last.writes) = 2 /\ ~d_last.writes[2].ok

\* C8 as stated: the packet of the retried write is the packet whose write
\* failed, byte for byte.
C8_Original ==
    Len(d_last.writes) = 2 => d_last.writes[2].bytes = d_last.writes[1].bytes

(***************************************************************************)
(* Claims about SensorReader::update (SpecSensor).                         *)
(***************************************************************************)
\* C6 as stated: when five update calls in a row have each left the
\* readings equal to the readings before the call, the next update call
\* takes the reconnect path and sweeps no reading table.
C6_Original ==
    s_last.called /\ s_last.prior_streak >= MAX_NO_CHANGE_COUNT =>
        s_last.path = "reconnect"

(***************************************************************************)
(* Claims about the two components under the loop of main.rs (SpecMain).   *)
(***************************************************************************)
\* the display as a successful Self::new() leaves it, seen from before
DisplayReplaced(old) ==
    [device |-> NextHandle(old), payload |-> DisplayPayload_new,
     mode |-> DisplayMode_default]

\* the reader as a successful Self::new() leaves it, seen from before
ReaderReplaced(old, new) ==
    /\ new.view = NextView(old)
    /\ new.readings = SensorReadings_default
    /\ new.no_change_counter = 0

\* C9: a reconnect is an atomic swap.  When CH170Display::update cannot
\* construct the replacement display, it returns the error and the display
\* (handle, mode, packet) is what it was before the attempt; when
\* SensorReader::update cannot construct the replacement reader after the
\* retries, it returns the error and the reader (mapping, sensor list,
\* readings, staleness counter) is what it was before the attempt.
\* Otherwise the whole replacement is installed.
C9_AtomicSwap ==
    [][ /\ d_last.pc = "reconnect" /\ d_last' # d_last =>
             \/ /\ ~d_last'.reconnected
                /\ display' = display
                /\ d_last'.pc = "idle" /\ d_last'.result = "err"
             \/ /\ d_last'.reconnected
                /\ display' = DisplayReplaced(display)
                /\ d_last'.pc = "rewrite"
        /\ m.pc = "sensor_update" /\ m'.pc = "display_update"
              /\ needs_reconnect(reader) =>
             /\ s_last'.path = "reconnect"
             /\ \/ /\ s_last'.result = "err"
                   /\ reader' = reader
                   /\ m'.failed
                \/ /\ s_last'.result = "ok"
                   /\ ReaderReplaced(reader, reader') ]_vars

\* in one poll cycle the reader's reconnect failed after its retries and
\* the display's reconnect failed too
C9_Witness ==
    /\ s_last.path = "reconnect" /\ s_last.result = "err"
    /\ s_last.news = MAX_CONNECTION_RETRIES
    /\ d_last.pc = "idle" /\ d_last.reconnects = 1 /\ ~d_last.reconnected
    /\ d_last.result = "err"
    /\ m.pc = "sleep"

\* C10 as stated: once sensor_reader.update() or display.update() has
\* returned an error to the loop, no further poll cycle is started.
C10_Original ==
    ~(m.failed /\ m.pc = "sensor_update")

\* how far the loop stands from its return once the flag is set: the
\* lines still to run, counted from the return of run_display_loop
ShutdownRank ==
    CASE m.pc = "done" -> 0
      [] m.pc = "loop" -> 1
      [] m.pc = "switch_mode" -> 2
      [] m.pc = "cycle" -> 3
      [] m.pc = "after_sleep" -> 3
      [] m.pc = "sleep" -> 4
      [] m.pc = "display_return" /\ d_last.pc = "idle" -> 5
      [] m.pc = "display_return" /\ d_last.pc = "rewrite" -> 6
      [] m.pc = "display_return" /\ d_last.pc = "reconnect" -> 7
      [] m.pc = "display_update" -> 8
      [] m.pc = "sensor_update" -> 9

\* C11: a pending shutdown is observed within one poll interval.  Once the
\* flag is true every step of the loop moves it strictly closer to its
\* return, so no sensor_reader.update() and no display.update() is started
\* after the ones the loop had already committed to when the flag became
\* true (at most one pair); the check before a poll cycle and the check
\* after the sleep both leave the cycle; and when the flag is true at the
\* loop's entry, run_display_loop returns without any update.
C11_ShutdownWithinOnePoll ==
    [][ m.shutdown =>
          /\ ShutdownRank' < ShutdownRank
          /\ m.pc \in {"cycle", "after_sleep"} => m'.pc = "switch_mode"
          /\ m.pc = "loop" =>
                m'.pc = "done" /\ reader' = reader /\ display' = display ]_vars

\* the flag was set while the loop was polling, and the loop has returned
C11_Witness ==
    m.pc = "done" /\ m.shutdown /\ s_last.called /\ d_last.called

(***************************************************************************)
(* Claims about the display mode and the packet (SpecDisplay).             *)
(***************************************************************************)
\* the fixed cycle of the modes, in order
ModeCycle == <<CpuFrequency, Gpu, CpuFan>>

\* the mode after mode in the cycle
ModeSuccessor(mode) ==
    LET i == CHOOSE j \in 1..Len(ModeCycle) : ModeCycle[j] = mode
    IN  ModeCycle[(i % Len(ModeCycle)) + 1]

\* a step that is a switch_mode call: no update call runs or is recorded
SwitchModeStep == d_last' = d_last /\ display' # display

\* C12: the mode starts at CpuFrequency, and every switch_mode call moves
\* it to its successor in the cycle CpuFrequency -> Gpu -> CpuFan ->
\* CpuFrequency; two more calls after any call are back at the mode the
\* call started from.
C12_ModeCycle ==
    /\ display.mode = CpuFrequency
    /\ [][ SwitchModeStep =>
             /\ display'.mode = ModeSuccessor(display.mode)
             /\ display'.mode # display.mode
             /\ DisplayMode_next(DisplayMode_next(display'.mode)) = display.mode
         ]_vars

\* two switch_mode calls after construction: the third mode of the cycle
C12_Witness ==
    display.mode = CpuFan /\ ~d_last.called

\* the mode tag of a packet: byte 6
ModeTag(payload) == DisplayPayload_as_bytes(payload)[7]

\* C13 as stated: a switch_mode call changes the mode and no byte of the
\* packet, and after each update call the mode tag of the packet is the
\* value of the mode that was current when update was called.
C13_Original ==
    /\ [](d_last.called /\ d_last.pc = "idle" =>
             ModeTag(display.payload) = d_last.mode)
    /\ [][ SwitchModeStep =>
             DisplayPayload_as_bytes(display'.payload)
                = DisplayPayload_as_bytes(display.payload) ]_vars

(***************************************************************************)
(* Claims about the readings and the mapping of SensorReader (SpecSensor). *)
(***************************************************************************)
\* C14 as stated: across every update call, the reconnect path included, a
\* metric that the call's sweep does not report keeps the value it had
\* before the call; no metric goes back to its construction default.
C14_Original ==
    [][ \A f \in Metrics :
           f \notin s_last'.reported =>
               reader'.readings[f] = reader.readings[f] ]_vars

\* C15 as stated: after every update call each view mapped during the call
\* is either the one the reader now owns or has been unmapped, and the view
\* a replaced reader owned has been unmapped once: the views mapped and
\* the views unmapped by the call balance.
C15_Original ==
    s_last.called => s_last.mapped = s_last.unmapped

(***************************************************************************)
(* Claims about the sweep of the reading table (SpecSensor).  In a step    *)
(* of an update call that swept the table, reader is the reader before     *)
(* the call, reader' the reader after it and s_last'.mem the mapping       *)
(* content the call read.                                                  *)
(***************************************************************************)
SweepStep == s_last'.path = "parse"

\* whether a reading's sensor index lies within the copied sensor list
InBounds(sensors, rd) == rd.sensor_index < Len(sensors)

\* the table without the readings whose sensor index is out of bounds
WithoutOutOfBounds(sensors, table) ==
    SelectSeq(table, LAMBDA rd : InBounds(sensors, rd))

\* C16: a reading whose sensor_index is outside the copied sensor list is
\* skipped and the sweep goes on: the readings after an update are those
\* the same update gives on the table with the out-of-bounds readings
\* removed.
C16_OutOfBoundsSkipped ==
    [][ SweepStep =>
          LET table == s_last'.mem.table
              kept == WithoutOutOfBounds(reader.sensors, table)
              polled == [reader.readings EXCEPT
                           !.polling_period = s_last'.mem.polling_period]
          IN  reader'.readings =
                 read_all_sensors(reader.sensors, polled, kept, Len(kept)) ]_vars

\* the swept table had an out-of-bounds reading in the middle, and the
\* readings hold the value of a reading that comes after it
C16_Witness ==
    /\ s_last.path = "parse" /\ s_last.mem.table = FullTable
    /\ reader.sensors = Names1
    /\ ~InBounds(reader.sensors, FullTable[6])
    /\ reader.readings.gpu_freq = FullTable[14].value

\* the values of the per-core clock readings of a table, in table order:
\* readings under the CPU sensor whose label contains "perf #"
PerCoreClocks(sensors, table) ==
    LET clocks == SelectSeq(table, LAMBDA rd :
                     /\ InBounds(sensors, rd)
                     /\ sensors[rd.sensor_index + 1] = S_Cpu
                     /\ rd.label # L_TotalUsage
                     /\ contains(rd.label, PerfPattern))
    IN  [i \in 1..Len(clocks) |-> clocks[i].value]

\* C17: after a sweep with one or more per-core clock readings cpu_freq is
\* the arithmetic mean of exactly their values ({4700, 4900} gives 4800);
\* after a sweep with none, cpu_freq keeps its previous value.
C17_CpuFreqMean ==
    [][ SweepStep =>
          LET clocks == PerCoreClocks(reader.sensors, s_last'.mem.table)
          IN  /\ clocks # <<>> =>
                   reader'.readings.cpu_freq
                      = SumRange(clocks, 1, Len(clocks)) \div Len(clocks)
              /\ clocks = <<>> =>
                   reader'.readings.cpu_freq = reader.readings.cpu_freq
              /\ clocks = <<Real(4700, 1), Real(4900, 1)>> =>
                   reader'.readings.cpu_freq = Real(4800, 1) ]_vars

\* the sweep met the clocks 4700 and 4900 and cpu_freq is 4800
C17_Witness ==
    /\ s_last.path = "parse"
    /\ PerCoreClocks(reader.sensors, s_last.mem.table)
          = <<Real(4700, 1), Real(4900, 1)>>
    /\ reader.readings.cpu_freq = Real(4800, 1)

\* the fixed table of the known (sensor display name, reading label) pairs
KnownPairs ==
    { [sensor |-> S_CpuEnhanced, label |-> L_Tctl, field |-> "cpu_temp"],
      [sensor |-> S_CpuEnhanced, label |-> L_PackagePower, field |-> "cpu_power"],
      [sensor |-> S_Cpu, label |-> L_TotalUsage, field |-> "cpu_usage"],
      [sensor |-> S_Board, label |-> L_Cpu, field |-> "cpu_cooler_rpm"],
      [sensor |-> S_Gpu, label |-> L_GpuTemperature, field |-> "gpu_temp"],
      [sensor |-> S_Gpu, label |-> L_GpuPower, field |-> "gpu_power"],
      [sensor |-> S_Gpu, label |-> L_GpuCoreLoad, field |-> "gpu_usage"],
      [sensor |-> S_Gpu, label |-> L_GpuClock, field |-> "gpu_freq"] }

\* the positions of the table whose reading carries the pair
Carriers(sensors, table, pair) ==
    {i \in 1..Len(table) :
        /\ InBounds(sensors, table[i])
        /\ sensors[table[i].sensor_index + 1] = pair.sensor
        /\ table[i].label = pair.label}

\* the last of a non-empty set of positions
Last(positions) == CHOOSE i \in positions : \A j \in positions : j <= i

\* C18: for each known pair, after an update whose table carries the pair
\* the pair's field is the value of the last reading, in table order, that
\* carries it; "CPU (Tctl/Tdie)" under the Enhanced CPU sensor with value
\* 75.5 gives cpu_temp = 75.5.
C18_KnownPairLastWins ==
    [][ SweepStep =>
          \A pair \in KnownPairs :
             LET table == s_last'.mem.table
                 at == Carriers(reader.sensors, table, pair)
             IN  at # {} =>
                    reader'.readings[pair.field] = table[Last(at)].value ]_vars

\* the swept table carried CPU (Tctl/Tdie) twice, 70 first and 75.5 last,
\* and cpu_temp is 75.5
C18_Witness ==
    /\ s_last.path = "parse"
    /\ s_last.mem.table = << Reading(0, L_Tctl, Real(70, 1)),
                             Reading(0, L_Tctl, Real(151, 2)) >>
    /\ reader.sensors = Names1
    /\ reader.readings.cpu_temp = Real(151, 2)

(***************************************************************************)
(* Claims about the encoding (SpecDisplay) and the sleep (SpecMain).       *)
(***************************************************************************)
\* C19: encoding is deterministic.  From every reachable packet, for every
\* mode and readings, a second DisplayPayload::update with the same mode
\* and readings changes no byte of the packet the first one produced; and
\* an update call that follows a successful one with the same readings in
\* the same mode writes the same bytes.
C19_Deterministic ==
    /\ [](\A mode \in DisplayModes, readings \in SampleReadings :
            LET once == DisplayPayload_update(display.payload, mode, readings)
                twice == DisplayPayload_update(once, mode, readings)
            IN  DisplayPayload_as_bytes(twice) = DisplayPayload_as_bytes(once))
    /\ [][ /\ d_last.pc = "idle" /\ d_last.called /\ d_last.reconnects = 0
           /\ display.mode = d_last.mode
           /\ d_last'.mode = d_last.mode /\ d_last'.readings = d_last.readings
           => d_last'.writes[1].bytes = d_last.writes[1].bytes ]_vars

\* an update with readings other than the defaults has returned, and the
\* packet is the one the same update would produce again
C19_Witness ==
    /\ d_last.called /\ d_last.pc = "idle" /\ d_last.reconnects = 0
    /\ d_last.readings # SensorReadings_default
    /\ display.mode = Gpu /\ d_last.mode = Gpu
    /\ DisplayPayload_as_bytes(
          DisplayPayload_update(display.payload, d_last.mode, d_last.readings))
         = d_last.writes[1].bytes

\* the smaller of two numbers
Min(a, b) == IF a <= b THEN a ELSE b

\* C20: polling_period() is the polling period the reader holds from the
\* source, clamped to the 250 ms ceiling, and the loop sleeps for it: the
\* sleep is min(held period, 250), hence at most 250 ms, and after an
\* update that swept the table the held period is the one the header
\* reported to that update.
C20_PollingCeiling ==
    /\ polling_period(reader) = Min(reader.readings.polling_period, MAX_POLLING_PERIOD)
    /\ m.slept <= MAX_POLLING_PERIOD
    /\ m.pc = "after_sleep" =>
          /\ m.slept = Min(reader.readings.polling_period, MAX_POLLING_PERIOD)
          /\ s_last.path = "parse" =>
                m.slept = Min(s_last.mem.polling_period, MAX_POLLING_PERIOD)

\* the source reported 1000 ms and the loop slept 250 ms
C20_Witness ==
    /\ m.pc = "after_sleep" /\ s_last.path = "parse"
    /\ s_last.mem.polling_period > MAX_POLLING_PERIOD
    /\ m.slept = MAX_POLLING_PERIOD

(***************************************************************************)
(* Claims about SensorReader::new (SpecConnect).                           *)
(***************************************************************************)
\* C21: SensorReader::new returns an error and builds no reader whenever
\* the header's sensor count is zero or above 10000; a reader is built
\* exactly for the mapped headers with 1 <= sensor_elements_number <=
\* 10000, and its sensor list then has sensor_elements_number entries.
C21_HeaderValidated ==
    s_last.called =>
       LET n == s_last.count
           mapped == s_last.k < MAX_CONNECTION_RETRIES
       IN  /\ (n = 0 \/ n > 10000) => ~s_last.ok
           /\ s_last.ok = (mapped /\ 1 <= n /\ n <= 10000)
           /\ s_last.ok => Len(reader.sensors) = n
           /\ mapped /\ ~s_last.ok => s_last.err = -2

\* a header with 10001 sensors was rejected, after one with 10000 sensors
\* had been accepted: the reader still holds those 10000
C21_Witness ==
    /\ s_last.called /\ ~s_last.ok /\ s_last.k = 0
    /\ s_last.count = MAX_SENSOR_ELEMENTS + 1
    /\ Len(reader.sensors) = MAX_SENSOR_ELEMENTS

(***************************************************************************)
(* Claims about the rotation of the loop (SpecMain).                       *)
(***************************************************************************)
\* C22: while no shutdown is requested, a poll cycle is
\* sensor_reader.update(), then display.update(readings), then the sleep,
\* and display.switch_mode() is called after exactly 5 poll cycles
\* (REFRESH_CYCLES_PER_MODE) since the previous switch_mode or the start,
\* whether or not the updates of those cycles succeeded.
C22_RotateEveryFiveCycles ==
    /\ [](/\ m.polls <= 5 /\ m.shown <= m.polls
          /\ ~m.shutdown /\ m.pc = "switch_mode" => m.polls = 5 /\ m.shown = 5
          /\ m.pc = "display_update" => m.shown + 1 = m.polls
          /\ m.pc \in {"sleep", "after_sleep"} =>
                m.shown = m.polls /\ d_last.called /\ d_last.pc = "idle")
    /\ [][ /\ m.pc = "sensor_update" => m'.pc \in {"sensor_update", "display_update"}
           /\ m.pc = "display_update" =>
                 /\ m'.pc \in {"display_update", "display_return"}
                 /\ m'.pc = "display_return" => d_last'.readings = reader.readings
           /\ m.pc = "display_return" => m'.pc \in {"display_return", "sleep"}
           /\ m.pc = "sleep" => m'.pc \in {"sleep", "after_sleep"}
           /\ ~m'.shutdown /\ m.pc = "after_sleep" => m'.pc \in {"after_sleep", "cycle"}
         ]_vars

\* five poll cycles with a failed update among them, and the mode is
\* about to be switched
C22_Witness ==
    /\ m.pc = "switch_mode" /\ ~m.shutdown /\ m.failed
    /\ m.polls = REFRESH_CYCLES_PER_MODE /\ m.shown = REFRESH_CYCLES_PER_MODE

(***************************************************************************)
(* Claims about the fixed bytes of the packet (SpecDisplay).               *)
(***************************************************************************)
\* the bytes i..j of b are zero
ZeroRange(b, i, j) == \A n \in i..j : b[n] = 0

\* a packet's bytes outside the mode tag, the metric fields and the
\* checksum: byte 0 report id, bytes 1-5 header, byte 9 temperature-unit
\* flag, bytes 28-38 PSU fields, byte 39 filler, byte 41 terminator, bytes
\* 42-63 padding
FixedBytes(b) ==
    /\ Len(b) = 64
    /\ b[1] = 16
    /\ SubSeq(b, 2, 6) = <<104, 1, 6, 35, 1>>
    /\ b[10] = DisplayPayload_as_bytes(DisplayPayload_new)[10]
    /\ b[10] = 0
    /\ ZeroRange(b, 29, 39)
    /\ b[40] = 0
    /\ b[42] = 22
    /\ ZeroRange(b, 43, 64)

\* C23: in every state that update and switch_mode calls reach from a
\* constructed packet, and in every packet written, the report id (16),
\* the 5-byte header, the temperature-unit flag, the terminator (22) and
\* the 22 padding bytes are as construction set them, and the PSU fields
\* and the filler byte are zero.
C23_FixedBytes ==
    /\ FixedBytes(DisplayPayload_as_bytes(display.payload))
    /\ \A i \in 1..Len(d_last.writes) : FixedBytes(d_last.writes[i].bytes)

\* updates in the GPU mode and in a CPU mode have both encoded readings
\* other than the defaults into the packet
C23_Witness ==
    /\ d_last.called /\ d_last.pc = "idle" /\ d_last.mode = Gpu
    /\ GpuFields(display.payload) # GpuFields(DisplayPayload_new)
    /\ CpuFields(display.payload) # CpuFields(DisplayPayload_new)

Max(a, b) == IF a >= b THEN a ELSE b

\* C29: retry_with_backoff always invokes the operation at least once.
\* With max_retries = 0 it invokes it exactly once and, if that invocation
\* fails, returns the error without sleeping; when every invocation fails
\* the call ends after max(1, max_retries) invocations.
C29_AtLeastOnce ==
    LET c == Calls(r)
    IN  /\ r.pc = "done" => Len(c) >= 1
        /\ Len(c) = 0 => r.pc = "call" /\ r.result.tag = "none"
        /\ r.max_retries = 0 =>
              /\ Len(c) <= 1 /\ Sleeps(r) = <<>>
              /\ Len(c) = 1 =>
                    /\ r.pc = "done"
                    /\ ~c[1].ok => r.result.tag = "err" /\ r.result.val = c[1].val
        /\ AllFailed(c) =>
              /\ Len(c) <= Max(1, r.max_retries)
              /\ (r.pc = "done") = (Len(c) = Max(1, r.max_retries))

\* max_retries = 0: one invocation, which failed, and the error returned
C29_Witness ==
    /\ r.max_retries = 0 /\ r.pc = "done" /\ r.result.tag = "err"
    /\ Len(r.log) = 1 /\ ~Calls(r)[1].ok

(***************************************************************************)
(* Claims about the mode across update (SpecDisplay).                      *)
(***************************************************************************)
\* C25 as stated: the mode changes only through switch_mode; no step of a
\* CH170Display::update call, the reconnect after a failed write included,
\* changes the mode, so the call returns in the mode it was called in.
C25_Original ==
    [][ d_last' # d_last => display'.mode = display.mode ]_vars

(***************************************************************************)
(* Claims about the staleness counter and the reconnect (SpecSensor).      *)
(***************************************************************************)
\* C26: the staleness counter.  An update that sweeps the table finds the
\* counter at most at MAX_NO_CHANGE_COUNT, and makes it one more when the
\* readings after the sweep equal the readings before it and zero
\* otherwise; an update that finds it above the threshold reconnects
\* instead, and a successful reconnect leaves it at zero; the counter is
\* never above MAX_NO_CHANGE_COUNT + 1 = 6.
C26_CounterDiscipline ==
    /\ [](reader.no_change_counter <= 6 /\ MAX_NO_CHANGE_COUNT + 1 = 6)
    /\ [][ /\ SweepStep =>
                /\ reader.no_change_counter <= MAX_NO_CHANGE_COUNT
                /\ reader'.no_change_counter =
                      IF reader'.readings = reader.readings
                      THEN reader.no_change_counter + 1 ELSE 0
           /\ reader.no_change_counter > MAX_NO_CHANGE_COUNT =>
                /\ s_last'.path = "reconnect"
                /\ s_last'.result = "ok" => reader'.no_change_counter = 0
         ]_vars

\* the sixth unchanged sweep in a row: the counter is at its maximum
C26_Witness ==
    s_last.path = "parse" /\ reader.no_change_counter = MAX_NO_CHANGE_COUNT + 1

\* C27: once the counter is above the threshold every update call
\* attempts a reconnect and sweeps nothing until a reconnect succeeds.  A
\* failed reconnect returns the error and leaves counter and readings as
\* they were, so the following call reconnects again; the call whose
\* reconnect succeeds returns Ok without a sweep, and the call after it
\* sweeps the table again.
C27_ReconnectUntilSuccess ==
    [][ /\ needs_reconnect(reader) =>
             /\ s_last'.path = "reconnect" /\ s_last'.news >= 1
             /\ s_last'.reported = {} /\ s_last'.mem = NoMemory
             /\ s_last'.result \in {"ok", "err"}
             /\ s_last'.result = "err" =>
                   /\ reader'.no_change_counter = reader.no_change_counter
                   /\ reader'.readings = reader.readings
                   /\ needs_reconnect(reader')
             /\ s_last'.result = "ok" => ~needs_reconnect(reader')
        /\ s_last.path = "reconnect" /\ s_last.result = "err" =>
             s_last'.path = "reconnect"
        /\ s_last.path = "reconnect" /\ s_last.result = "ok" =>
             s_last'.path = "parse" /\ s_last'.result = "ok"
      ]_vars

\* a reconnect has succeeded in the call after one that failed
C27_Witness ==
    /\ s_last.path = "reconnect" /\ s_last.result = "ok"
    /\ s_last.prior_streak = StreakCap
    /\ ~needs_reconnect(reader)

\* whether the table has a reading that matches the metric: one that
\* carries the metric's known pair or, for cpu_freq, a per-core clock
Matched(sensors, table, f) ==
    \/ \E pair \in KnownPairs :
          pair.field = f /\ Carriers(sensors, table, pair) # {}
    \/ f = "cpu_freq" /\ PerCoreClocks(sensors, table) # <<>>

\* C28: unmatched readings are ignored.  After a sweep every metric for
\* which the table held no matching reading has the value it had before
\* the sweep, and the update returns Ok whatever unmatched readings the
\* table holds.
C28_UnmatchedIgnored ==
    [][ SweepStep =>
          /\ s_last'.result = "ok"
          /\ \A f \in Metrics :
                ~Matched(reader.sensors, s_last'.mem.table, f) =>
                    reader'.readings[f] = reader.readings[f] ]_vars

\* a sweep of a table whose only reading is within bounds and matches no
\* pair (CPU (Tctl/Tdie) under the GPU sensor) has kept an earlier cpu_freq
C28_Witness ==
    /\ s_last.path = "parse" /\ reader.sensors = Names2
    /\ s_last.mem.table = <<Reading(0, L_Tctl, Real(151, 2))>>
    /\ reader.readings.cpu_freq = Real(4700, 1)
    /\ reader.readings.cpu_temp = 0

(***************************************************************************)
(* Claims about the checksum's accumulator (SpecDisplay).                  *)
(***************************************************************************)
\* n bytes of 255
Ones(n) == [i \in 1..n |-> 255]

\* the data block with every byte at its largest
DisplayData_full ==
    [fixed_header |-> Ones(5), mode |-> 255,
     cpu_power |-> Ones(2), all_temperature_unit |-> 255,
     cpu_temperature |-> Ones(4), cpu_utilization |-> 255,
     cpu_frequency |-> Ones(2), cpu_fan_speed |-> Ones(2),
     gpu_power |-> Ones(2), gpu_temperature |-> Ones(4),
     gpu_utilization |-> 255, gpu_frequency |-> Ones(2),
     psu_power_1 |-> Ones(2), psu_temperature |-> Ones(4),
     psu_utilization |-> 255, psu_power_2 |-> Ones(2),
     psu_fan_speed |-> Ones(2), filler |-> 255]

\* the accumulator of the checksum over a data block holds the true sum of
\* the block's 39 bytes, and the checksum is that sum modulo 256
TrueSum(data) ==
    LET b == DisplayData_as_bytes(data)
    IN  /\ Len(b) = 39
        /\ \A i \in 1..Len(b) : b[i] \in 0..255
        /\ SumRange(b, 1, Len(b)) <= 39 * 255
        /\ SumU16(0, b, 1) = SumRange(b, 1, Len(b))
        /\ checksum(data) = SumRange(b, 1, Len(b)) % 256

\* C30: the 16-bit accumulator of the checksum never overflows.  The data
\* block is 39 bytes, so its byte sum is at most 39 * 255 = 9945 < 65536;
\* for every packet reached, and for the block with every byte 255, the
\* accumulator holds the true sum and the checksum is the true sum modulo
\* 256.
C30_NoOverflow ==
    /\ 39 * 255 = 9945 /\ 9945 < 65536
    /\ TrueSum(display.payload.data)
    /\ TrueSum(DisplayData_full)
    /\ SumU16(0, DisplayData_as_bytes(DisplayData_full), 1) = 9945
    /\ d_last.called /\ d_last.pc # "rewrite" =>
          display.payload.checksum
             = SumRange(DisplayData_as_bytes(display.payload.data), 1, 39) % 256

\* an update has encoded a block whose byte sum does not fit in one byte
C30_Witness ==
    /\ d_last.called /\ d_last.pc = "idle"
    /\ SumRange(DisplayData_as_bytes(display.payload.data), 1, 39) > 255
    /\ display.payload.checksum
          = SumRange(DisplayData_as_bytes(display.payload.data), 1, 39) % 256

====
